---- MODULE Spec2Model ----
(***************************************************************************)
(* Model of src/plot_tool.py: the four chart tools (plot_tool,             *)
(* list_charts_tool, load_chart_tool, delete_chart_tool) acting on the     *)
(* host's artifact store and on the session-state list "generated_charts". *)
(*                                                                         *)
(* Strings built with "_" are modelled as sequences of their "_"-separated *)
(* tokens, the extension being the last token: the name                    *)
(* "line_b_vs_a_<timestamp>.png" is <<"line","b","vs","a",<timestamp>,     *)
(* "png">>.  The clock counts ticks; strftime("%Y%m%d_%H%M%S") keeps whole *)
(* seconds only.                                                           *)
(***************************************************************************)
EXTENDS Integers, Sequences, FiniteSets, TLC

VARIABLES
    artifacts,         \* the artifact store: filename -> number of versions kept
    generated_charts,  \* state["generated_charts"]: the tracked records
    files,             \* the files written by the local-file path
    clock,             \* datetime.now(), in ticks
    last,              \* the last tool call: inputs, result, state before it
    prev,              \* the call before it, when a successful render or delete
    inv                \* the two overlapping invocations of SpecConc

vars == <<artifacts, generated_charts, files, clock, last, prev, inv>>

\* ------------------------------------------------------------------ bounds
MaxClock == 3
TicksPerSecond == 2

\* ------------------------------------------------------------------ inputs
ColA == <<"a">>
ColB == <<"b">>
ColC == <<"c">>
DfColumns == {ColA, ColB}

ChartTypes == {"bar", "pie"}
SaveFolders == {"charts"}

\* params: text that is not JSON, or a JSON object holding some of the keys
\* df, x_col, y_col.
NotJson == [json |-> FALSE, keys |-> {}, df |-> {}, x_col |-> <<>>, y_col |-> <<>>]
JsonObj(keys, x, y) ==
    [json |-> TRUE, keys |-> keys, df |-> DfColumns, x_col |-> x, y_col |-> y]
AllKeys == {"df", "x_col", "y_col"}
ParamsSet ==
    {NotJson}
    \cup {JsonObj(AllKeys, ColA, ColB), JsonObj(AllKeys, ColC, ColB),
          JsonObj(AllKeys, ColA, ColC)}
    \cup {JsonObj(AllKeys \ {k}, ColA, ColB) : k \in AllKeys}

\* ------------------------------------------------------------ pure helpers
\* datetime.now().strftime("%Y%m%d_%H%M%S"): second resolution.
strftime(now) == ToString(now \div TicksPerSecond)

\* f"{chart_type}_{y_col}_vs_{x_col}_{timestamp}.png"
MkFilename(chart_type, y_col, x_col, timestamp) ==
    <<chart_type>> \o y_col \o <<"vs">> \o x_col \o <<timestamp, "png">>

\* f.endswith('.png')
endswith_png(f) == Len(f) > 0 /\ f[Len(f)] = "png"

ForeignName == <<"data", "csv">>
GhostName == <<"ghost", "png">>

\* The filenames a caller asks for: those stored or tracked, and two that no
\* render produced.
Filenames(arts, charts) ==
    DOMAIN arts \cup {charts[i].filename : i \in DOMAIN charts}
    \cup {ForeignName, GhostName}


\* ------------------------------------------------------ results, exceptions
NoName == <<>>
NoVersion == 0 - 1

\* A returned dict.  message is <<fixed text, interpolated value>>.
Result(status, text, arg) ==
    [status |-> status, message |-> <<text, arg>>,
     artifact_name |-> NoName, version |-> NoVersion, filepath |-> <<>>,
     chart_artifacts |-> {}, charts_history |-> <<>>, total_charts |-> 0,
     chart_info |-> <<>>, removed |-> 0]

\* An exception leaving a call uncaught: no dict is returned.
Uncaught(exc) == Result("raised", exc.type, exc.arg)

Exc(type, arg) == [type |-> type, arg |-> arg]

\* What a call leaves behind: the returned dict and the collaborators' state.
Outcome(result, arts, charts, fsys) ==
    [result |-> result, artifacts |-> arts, generated_charts |-> charts,
     files |-> fsys]

\* ------------------------------------------------------ external interfaces
\* tool_context.save_artifact(filename, part) -> version: the store keeps
\* every version written under a key and returns the index of the new one.
save_artifact(arts, filename) ==
    [version |-> IF filename \in DOMAIN arts THEN arts[filename] ELSE 0,
     artifacts |-> [n \in DOMAIN arts \cup {filename} |->
                      IF n = filename
                      THEN (IF n \in DOMAIN arts THEN arts[n] + 1 ELSE 1)
                      ELSE arts[n]]]

\* tool_context.load_artifact(name): the blob, or None when absent.
load_artifact(arts, name) == name \in DOMAIN arts

\* tool_context.list_artifacts(): the keys of the store.
list_artifacts(arts) == DOMAIN arts

\* ------------------------------------------------------------- plot_tool
\* A handler that lets the exception through.
except_Exception_reraise(exc, text) == Uncaught(exc)

\* except Exception as e (the last handler of each tool)
except_Exception(exc, text) == Result("error", text, exc.arg)

\* The except chain of plot_tool, in source order.
plot_handlers(exc) ==
    IF exc.type = "JSONDecodeError"
    THEN Result("error", "Invalid JSON format in params", <<>>)
    ELSE IF exc.type = "KeyError"
    THEN Result("error", "Missing key in JSON data", exc.arg)
    ELSE except_Exception(exc, "Error generating chart")

\* chart_info appended to generated_charts
ChartInfo(filename, chart_type, x_col, y_col, timestamp, version) ==
    [filename |-> filename, chart_type |-> chart_type, x_col |-> x_col,
     y_col |-> y_col, timestamp |-> timestamp, version |-> version]

\* Lines 25-28: json.loads and the three subscripts.  <<>> when all succeed.
parse_params(params) ==
    IF ~params.json THEN <<Exc("JSONDecodeError", <<>>)>>
    ELSE IF "df" \notin params.keys THEN <<Exc("KeyError", <<"df">>)>>
    ELSE IF "x_col" \notin params.keys THEN <<Exc("KeyError", <<"x", "col">>)>>
    ELSE IF "y_col" \notin params.keys THEN <<Exc("KeyError", <<"y", "col">>)>>
    ELSE <<>>

\* px_chart raising as a failed dict lookup would.
px_chart_KeyError(params, chart_type) ==
    IF params.x_col \notin params.df THEN <<Exc("KeyError", params.x_col)>>
    ELSE IF params.y_col \notin params.df THEN <<Exc("KeyError", params.y_col)>>
    ELSE <<>>

\* Lines 34-44: plotly express rejects a column name that is not a column of
\* the data frame with ValueError, whose text carries the name received.
px_chart(params, chart_type) ==
    IF params.x_col \notin params.df THEN <<Exc("ValueError", params.x_col)>>
    ELSE IF params.y_col \notin params.df THEN <<Exc("ValueError", params.y_col)>>
    ELSE <<>>

\* Lines 70-80 without the read: the list written back to state is the list
\* that was read with chart_info appended.
track_chart_dropped(charts, chart_info) == charts

track_chart_atomic(charts, chart_info) == Append(generated_charts, chart_info)

track_chart(charts, chart_info) == Append(charts, chart_info)

\* plot_artifact_path with the record tracked before the blob is stored.
plot_artifact_path_track_first(params, chart_type, fault, alias, now, arts, charts, fsys) ==
    LET timestamp == strftime(now)
        filename == MkFilename(chart_type, params.y_col, params.x_col, timestamp)
        put == save_artifact(arts, filename)
        chart_info == ChartInfo(filename, chart_type, params.x_col,
                                params.y_col, timestamp, put.version)
        appended == track_chart(charts, chart_info)
    IN  IF fault = "to_image"
        THEN [exc |-> <<Exc("RuntimeError", <<"to_image">>)>>,
              out |-> Outcome(Result("none", "", <<>>), arts, charts, fsys)]
        ELSE IF fault = "state_get"
        THEN [exc |-> <<Exc("RuntimeError", <<"state">>)>>,
              out |-> Outcome(Result("none", "", <<>>), arts, charts, fsys)]
        ELSE IF fault = "state_set"
        THEN [exc |-> <<Exc("RuntimeError", <<"state">>)>>,
              out |-> Outcome(Result("none", "", <<>>), arts,
                              IF alias THEN appended ELSE charts, fsys)]
        ELSE IF fault = "save_artifact"
        THEN [exc |-> <<Exc("RuntimeError", <<"save_artifact">>)>>,
              out |-> Outcome(Result("none", "", <<>>), arts, appended, fsys)]
        ELSE [exc |-> <<>>,
              out |-> Outcome(
                 [Result("success", "Chart saved as artifact", filename)
                    EXCEPT !.artifact_name = filename, !.version = put.version],
                 put.artifacts, appended, fsys)]

\* Lines 58-88: the artifact path.  alias: the host's state.get hands out the
\* live list, so that the append of line 79 shows even when line 80 fails.
plot_artifact_path(params, chart_type, fault, alias, now, arts, charts, fsys) ==
    LET timestamp == strftime(now)
        filename == MkFilename(chart_type, params.y_col, params.x_col, timestamp)
        put == save_artifact(arts, filename)
        chart_info == ChartInfo(filename, chart_type, params.x_col,
                                params.y_col, timestamp, put.version)
        appended == track_chart(charts, chart_info)
    IN  IF fault = "to_image"
        THEN [exc |-> <<Exc("RuntimeError", <<"to_image">>)>>,
              out |-> Outcome(Result("none", "", <<>>), arts, charts, fsys)]
        ELSE IF fault = "save_artifact"
        THEN [exc |-> <<Exc("RuntimeError", <<"save_artifact">>)>>,
              out |-> Outcome(Result("none", "", <<>>), arts, charts, fsys)]
        ELSE IF fault = "state_get"
        THEN [exc |-> <<Exc("RuntimeError", <<"state">>)>>,
              out |-> Outcome(Result("none", "", <<>>), put.artifacts, charts, fsys)]
        ELSE IF fault = "state_set"
        THEN [exc |-> <<Exc("RuntimeError", <<"state">>)>>,
              out |-> Outcome(Result("none", "", <<>>), put.artifacts,
                              IF alias THEN appended ELSE charts, fsys)]
        ELSE [exc |-> <<>>,
              out |-> Outcome(
                 [Result("success", "Chart saved as artifact", filename)
                    EXCEPT !.artifact_name = filename, !.version = put.version],
                 put.artifacts, appended, fsys)]

\* Lines 89-100: the local-file path.
plot_file_path(params, chart_type, save_folder, fault, now, arts, charts, fsys) ==
    LET timestamp == strftime(now)
        filename == MkFilename(chart_type, params.y_col, params.x_col, timestamp)
        filepath == <<save_folder>> \o filename
    IN  IF fault = "write_image"
        THEN [exc |-> <<Exc("OSError", <<"write_image">>)>>,
              out |-> Outcome(Result("none", "", <<>>), arts, charts, fsys)]
        ELSE [exc |-> <<>>,
              out |-> Outcome(
                 [Result("success", "Chart saved to", filepath)
                    EXCEPT !.filepath = filepath],
                 arts, charts, fsys \cup {filepath})]

\* The try block of plot_tool, lines 23-100.
plot_body(params, chart_type, save_folder, ctx, fault, alias, now, arts, charts, fsys) ==
    LET unchanged == Outcome(Result("none", "", <<>>), arts, charts, fsys)
    IN  IF parse_params(params) # <<>>
        THEN [exc |-> parse_params(params), out |-> unchanged]
        ELSE IF px_chart(params, chart_type) # <<>>
        THEN [exc |-> px_chart(params, chart_type), out |-> unchanged]
        ELSE IF ctx
        THEN plot_artifact_path(params, chart_type, fault, alias, now, arts, charts, fsys)
        ELSE plot_file_path(params, chart_type, save_folder, fault, now, arts, charts, fsys)

plot_tool(params, chart_type, save_folder, ctx, fault, alias, now, arts, charts, fsys) ==
    LET b == plot_body(params, chart_type, save_folder, ctx, fault, alias,
                       now, arts, charts, fsys)
    IN  IF b.exc = <<>> THEN b.out
        ELSE [b.out EXCEPT !.result = plot_handlers(b.exc[1])]


\* ------------------------------------------------------ list_charts_tool
list_charts_body(fault, arts, charts) ==
    IF fault = "list_artifacts"
    THEN [exc |-> <<Exc("RuntimeError", <<"list_artifacts">>)>>,
          ret |-> Result("none", "", <<>>)]
    ELSE IF fault = "state_get"
    THEN [exc |-> <<Exc("RuntimeError", <<"state">>)>>,
          ret |-> Result("none", "", <<>>)]
    ELSE LET chart_artifacts == {f \in list_artifacts(arts) : endswith_png(f)}
         IN  [exc |-> <<>>,
              ret |-> [Result("success", "Found chart artifacts", <<>>)
                         EXCEPT !.chart_artifacts = chart_artifacts,
                                !.charts_history = charts,
                                !.total_charts = Cardinality(chart_artifacts)]]

\* list_charts_tool without the check of lines 117-118.
list_charts_tool_unguarded(ctx, fault, arts, charts, fsys) ==
    LET b == list_charts_body(fault, arts, charts)
    IN  Outcome(IF b.exc = <<>> THEN b.ret
                ELSE except_Exception(b.exc[1], "Error listing charts"),
                arts, charts, fsys)

list_charts_tool(ctx, fault, arts, charts, fsys) ==
    IF ~ctx
    THEN Outcome(Result("error", "ToolContext required for artifact access", <<>>),
                 arts, charts, fsys)
    ELSE LET b == list_charts_body(fault, arts, charts)
         IN  Outcome(IF b.exc = <<>> THEN b.ret
                     ELSE except_Exception(b.exc[1], "Error listing charts"),
                     arts, charts, fsys)

\* ------------------------------------------------------- load_chart_tool
\* find_chart without the break: the last matching record wins.
RECURSIVE find_chart_last(_, _)
find_chart_last(charts_history, chart_filename) ==
    IF charts_history = <<>> THEN <<>>
    ELSE IF charts_history[Len(charts_history)].filename = chart_filename
    THEN <<charts_history[Len(charts_history)]>>
    ELSE find_chart_last(SubSeq(charts_history, 1, Len(charts_history) - 1),
                         chart_filename)

\* Lines 167-171: the first record whose filename matches, as <<record>>, or
\* <<>> for None.
RECURSIVE find_chart(_, _)
find_chart(charts_history, chart_filename) ==
    IF charts_history = <<>> THEN <<>>
    ELSE IF Head(charts_history).filename = chart_filename
    THEN <<Head(charts_history)>>
    ELSE find_chart(Tail(charts_history), chart_filename)

load_chart_body(chart_filename, fault, arts, charts) ==
    IF fault = "load_artifact"
    THEN [exc |-> <<Exc("RuntimeError", <<"load_artifact">>)>>,
          ret |-> Result("none", "", <<>>)]
    ELSE IF ~load_artifact(arts, chart_filename)
    THEN [exc |-> <<>>,
          ret |-> Result("error", "not found in artifacts", chart_filename)]
    ELSE IF fault = "state_get"
    THEN [exc |-> <<Exc("RuntimeError", <<"state">>)>>,
          ret |-> Result("none", "", <<>>)]
    ELSE [exc |-> <<>>,
          ret |-> [Result("success", "loaded successfully", chart_filename)
                     EXCEPT !.chart_info = find_chart(charts, chart_filename)]]

load_chart_tool(chart_filename, ctx, fault, arts, charts, fsys) ==
    IF ~ctx
    THEN Outcome(Result("error", "ToolContext required for artifact access", <<>>),
                 arts, charts, fsys)
    ELSE LET b == load_chart_body(chart_filename, fault, arts, charts)
         IN  Outcome(IF b.exc = <<>> THEN b.ret
                     ELSE except_Exception(b.exc[1], "Error loading chart"),
                     arts, charts, fsys)

\* ----------------------------------------------------- delete_chart_tool
\* A removal that stops at the first match.
RECURSIVE without_first(_, _)
without_first(charts_history, chart_filename) ==
    IF charts_history = <<>> THEN <<>>
    ELSE IF Head(charts_history).filename # chart_filename
    THEN <<Head(charts_history)>> \o without_first(Tail(charts_history), chart_filename)
    ELSE Tail(charts_history)

\* [chart for chart in charts_history if chart["filename"] != chart_filename]
RECURSIVE without_filename(_, _)
without_filename(charts_history, chart_filename) ==
    IF charts_history = <<>> THEN <<>>
    ELSE IF Head(charts_history).filename # chart_filename
    THEN <<Head(charts_history)>> \o without_filename(Tail(charts_history), chart_filename)
    ELSE without_filename(Tail(charts_history), chart_filename)

delete_chart_body(chart_filename, fault, arts, charts) ==
    LET updated_charts == without_filename(charts, chart_filename)
    IN  IF fault = "state_get"
        THEN [exc |-> <<Exc("RuntimeError", <<"state">>)>>,
              ret |-> Result("none", "", <<>>), generated_charts |-> charts]
        ELSE IF Len(updated_charts) = Len(charts)
        THEN [exc |-> <<>>,
              ret |-> Result("warning", "was not found in tracking history",
                             chart_filename),
              generated_charts |-> charts]
        ELSE IF fault = "state_set"
        THEN [exc |-> <<Exc("RuntimeError", <<"state">>)>>,
              ret |-> Result("none", "", <<>>), generated_charts |-> charts]
        ELSE [exc |-> <<>>,
              ret |-> [Result("success", "removed from tracking", chart_filename)
                         EXCEPT !.removed = Len(charts) - Len(updated_charts)],
              generated_charts |-> updated_charts]

\* delete_chart_tool deleting the blob as well.
delete_chart_tool_purging(chart_filename, ctx, fault, arts, charts, fsys) ==
    IF ~ctx
    THEN Outcome(Result("error", "ToolContext required for state management", <<>>),
                 arts, charts, fsys)
    ELSE LET b == delete_chart_body(chart_filename, fault, arts, charts)
         IN  Outcome(IF b.exc = <<>> THEN b.ret
                     ELSE except_Exception(b.exc[1], "Error deleting chart"),
                     [n \in DOMAIN arts \ {chart_filename} |-> arts[n]],
                     b.generated_charts, fsys)

delete_chart_tool(chart_filename, ctx, fault, arts, charts, fsys) ==
    IF ~ctx
    THEN Outcome(Result("error", "ToolContext required for state management", <<>>),
                 arts, charts, fsys)
    ELSE LET b == delete_chart_body(chart_filename, fault, arts, charts)
         IN  Outcome(IF b.exc = <<>> THEN b.ret
                     ELSE except_Exception(b.exc[1], "Error deleting chart"),
                     arts, b.generated_charts, fsys)


\* ------------------------------------------------------------ the machine
EmptyStore == [n \in {} |-> 0]

\* The record of a call: its inputs, the clock reading of line 55, the dict
\* it returned and the collaborators' state when it began.
Call(op, ctx, fault, params, chart_type, name, timestamp, result) ==
    [op |-> op, ctx |-> ctx, fault |-> fault, params |-> params,
     chart_type |-> chart_type, name |-> name, timestamp |-> timestamp,
     result |-> result, pre_artifacts |-> artifacts,
     pre_charts |-> generated_charts, pre_files |-> files]

NoCall ==
    [op |-> "none", ctx |-> FALSE, fault |-> "none", params |-> NotJson,
     chart_type |-> "", name |-> NoName, timestamp |-> "",
     result |-> Result("none", "", <<>>), pre_artifacts |-> EmptyStore,
     pre_charts |-> <<>>, pre_files |-> {}]

\* What is kept of the call before the last one when it was a successful
\* render or delete with a context: the operation, the filename it was about
\* and, for a render, the values it used and returned.
Summary(c) ==
    IF c.ctx /\ c.result.status = "success" /\ c.op = "render"
    THEN [op |-> "render", name |-> c.result.artifact_name,
          info |-> <<ChartInfo(c.result.artifact_name, c.chart_type,
                               c.params.x_col, c.params.y_col, c.timestamp,
                               c.result.version)>>]
    ELSE IF c.ctx /\ c.result.status = "success" /\ c.op = "delete"
    THEN [op |-> "delete", name |-> c.name, info |-> <<>>]
    ELSE [op |-> "other", name |-> NoName, info |-> <<>>]

\* An invocation of the overlapping runs: where it stands (pc), what it was
\* asked, the list it read from state (charts) and whether the other
\* invocation wrote the list between that read and its own write (stale).
Idle ==
    [pc |-> "idle", op |-> "none", chart_type |-> "", timestamp |-> "",
     name |-> NoName, info |-> <<>>, charts |-> <<>>, status |-> "none",
     stale |-> FALSE]

Init ==
    /\ artifacts \in {EmptyStore, [n \in {ForeignName} |-> 1]}
    /\ generated_charts = <<>>
    /\ files = {}
    /\ clock = 0
    /\ last = NoCall
    /\ prev = Summary(NoCall)
    /\ inv = [i \in {1, 2} |-> Idle]

\* The collaborator call that fails during a call, if any.
RenderFaults(ctx) ==
    IF ctx THEN {"none", "to_image", "save_artifact", "state_get", "state_set"}
    ELSE {"none", "write_image"}

Faults(ctx, among) == IF ctx THEN {"none"} \cup among ELSE {"none"}

Finish(call, out) ==
    /\ artifacts' = out.artifacts
    /\ generated_charts' = out.generated_charts
    /\ files' = out.files
    /\ prev' = Summary(last)
    /\ last' = [call EXCEPT !.result = out.result]

\* render(params, chartType, saveFolder): one call of plot_tool.  The call
\* takes time: the clock has moved on when it returns.
Render ==
    /\ clock < MaxClock
    /\ \E params \in ParamsSet, chart_type \in ChartTypes,
          save_folder \in SaveFolders, ctx \in BOOLEAN :
       \E fault \in RenderFaults(ctx) :
       \E alias \in (IF fault = "state_set" THEN BOOLEAN ELSE {FALSE}) :
          /\ Finish(Call("render", ctx, fault, params, chart_type, NoName,
                         strftime(clock), Result("none", "", <<>>)),
                    plot_tool(params, chart_type, save_folder, ctx, fault, alias,
                              clock, artifacts, generated_charts, files))
          /\ clock' = clock + 1
    /\ UNCHANGED inv

ListCharts ==
    /\ \E ctx \in BOOLEAN :
       \E fault \in Faults(ctx, {"list_artifacts", "state_get"}) :
          Finish(Call("list", ctx, fault, NotJson, "", NoName, "",
                      Result("none", "", <<>>)),
                 list_charts_tool(ctx, fault, artifacts, generated_charts, files))
    /\ UNCHANGED <<clock, inv>>

LoadChart ==
    /\ \E chart_filename \in Filenames(artifacts, generated_charts),
          ctx \in BOOLEAN :
       \E fault \in Faults(ctx, {"load_artifact", "state_get"}) :
          Finish(Call("load", ctx, fault, NotJson, "", chart_filename, "",
                      Result("none", "", <<>>)),
                 load_chart_tool(chart_filename, ctx, fault, artifacts,
                                 generated_charts, files))
    /\ UNCHANGED <<clock, inv>>

DeleteChart ==
    /\ \E chart_filename \in Filenames(artifacts, generated_charts),
          ctx \in BOOLEAN :
       \E fault \in Faults(ctx, {"state_get", "state_set"}) :
          Finish(Call("delete", ctx, fault, NotJson, "", chart_filename, "",
                      Result("none", "", <<>>)),
                 delete_chart_tool(chart_filename, ctx, fault, artifacts,
                                   generated_charts, files))
    /\ UNCHANGED <<clock, inv>>

\* Time passing between calls.
Tick ==
    /\ clock < MaxClock
    /\ clock' = clock + 1
    /\ UNCHANGED <<artifacts, generated_charts, files, last, prev, inv>>

Next == Render \/ ListCharts \/ LoadChart \/ DeleteChart \/ Tick

Spec == Init /\ [][Next]_vars

\* --------------------------------------- any content of the collaborators
\* The store and the session state belong to the host: the calls are also
\* run from every small content of both, tracked records without a blob and
\* records sharing a filename included.
MaxInitCharts == 2

InitNames == {MkFilename("bar", ColB, ColA, strftime(0)), GhostName}
InitRecords ==
    {ChartInfo(n, "bar", ColA, ColB, strftime(0), v) : n \in InitNames, v \in {0, 1}}

RECURSIVE SeqsUpTo(_, _)
SeqsUpTo(S, n) ==
    IF n = 0 THEN {<<>>}
    ELSE SeqsUpTo(S, n - 1)
         \cup {Append(q, x) : q \in {r \in SeqsUpTo(S, n - 1) : Len(r) = n - 1},
                               x \in S}

InitAny ==
    /\ \E S \in SUBSET (InitNames \cup {ForeignName}) :
          artifacts = [n \in S |-> 2]
    /\ generated_charts \in SeqsUpTo(InitRecords, MaxInitCharts)
    /\ files = {}
    /\ clock = MaxClock - 1
    /\ last = NoCall
    /\ prev = Summary(NoCall)
    /\ inv = [i \in {1, 2} |-> Idle]

SpecAny == InitAny /\ [][Next]_vars

\* --------------------------------------------- two overlapping invocations
\* Two invocations against one session, each running the context path of
\* plot_tool (lines 55-88) or delete_chart_tool (lines 201-215) one
\* collaborator call at a time; state.get and the assignment to state are
\* the mapping's get and set of a value.
Other(i) == 3 - i

\* plot_tool, lines 55-56: the filename is fixed from the clock.
CStartRender(i) ==
    /\ inv[i].pc = "idle"
    /\ clock < MaxClock
    /\ \E chart_type \in ChartTypes :
          inv' = [inv EXCEPT ![i] =
                    [Idle EXCEPT !.pc = "put", !.op = "render",
                       !.chart_type = chart_type,
                       !.timestamp = strftime(clock),
                       !.name = MkFilename(chart_type, ColB, ColA, strftime(clock))]]
    /\ clock' = clock + 1
    /\ UNCHANGED <<artifacts, generated_charts, files, last, prev>>

CStartDelete(i) ==
    /\ inv[i].pc = "idle"
    /\ \E chart_filename \in Filenames(artifacts, generated_charts) :
          inv' = [inv EXCEPT ![i] =
                    [Idle EXCEPT !.pc = "read", !.op = "delete",
                       !.name = chart_filename]]
    /\ UNCHANGED <<artifacts, generated_charts, files, clock, last, prev>>

\* plot_tool, line 67
CPut(i) ==
    /\ inv[i].pc = "put"
    /\ LET put == save_artifact(artifacts, inv[i].name)
       IN  /\ artifacts' = put.artifacts
           /\ inv' = [inv EXCEPT ![i].pc = "read",
                         ![i].info = <<ChartInfo(inv[i].name, inv[i].chart_type,
                                                 ColA, ColB, inv[i].timestamp,
                                                 put.version)>>]
    /\ UNCHANGED <<generated_charts, files, clock, last, prev>>

\* plot_tool, line 70; delete_chart_tool, line 201
CRead(i) ==
    /\ inv[i].pc = "read"
    /\ inv' = [inv EXCEPT ![i].pc = "write", ![i].charts = generated_charts]
    /\ UNCHANGED <<artifacts, generated_charts, files, clock, last, prev>>

Wrote(i, status) ==
    [inv EXCEPT ![i].pc = "done", ![i].status = status,
                ![Other(i)].stale = (inv[Other(i)].pc = "write")]

\* plot_tool, lines 79-88
CWriteRender(i) ==
    /\ inv[i].pc = "write" /\ inv[i].op = "render"
    /\ generated_charts' = track_chart(inv[i].charts, inv[i].info[1])
    /\ inv' = Wrote(i, "success")
    /\ UNCHANGED <<artifacts, files, clock, last, prev>>

\* delete_chart_tool, lines 202-215
CWriteDelete(i) ==
    /\ inv[i].pc = "write" /\ inv[i].op = "delete"
    /\ LET updated_charts == without_filename(inv[i].charts, inv[i].name)
       IN  IF Len(updated_charts) = Len(inv[i].charts)
           THEN /\ inv' = [inv EXCEPT ![i].pc = "done", ![i].status = "warning"]
                /\ UNCHANGED generated_charts
           ELSE /\ generated_charts' = updated_charts
                /\ inv' = Wrote(i, "success")
    /\ UNCHANGED <<artifacts, files, clock, last, prev>>

\* Both invocations have returned: the next two begin.
CReset ==
    /\ \A i \in {1, 2} : inv[i].pc = "done"
    /\ inv' = [i \in {1, 2} |-> Idle]
    /\ UNCHANGED <<artifacts, generated_charts, files, clock, last, prev>>

NextConc ==
    \/ \E i \in {1, 2} :
          \/ CStartRender(i) \/ CStartDelete(i) \/ CPut(i) \/ CRead(i)
          \/ CWriteRender(i) \/ CWriteDelete(i)
    \/ CReset
    \/ Tick

SpecConc == Init /\ [][NextConc]_vars


\* ----------------------------------------------------------- properties
Records(charts) == {charts[i] : i \in DOMAIN charts}
Tracked(charts, f) == {i \in DOMAIN charts : charts[i].filename = f}
CtxCall(op) == last.op = op /\ last.ctx /\ last.fault = "none"
Unchanged == artifacts = last.pre_artifacts /\ generated_charts = last.pre_charts

\* C1: a listCharts call that follows a successful render with a context
\* returns the render's artifact_name in chart_artifacts and, in
\* charts_history, a record with that filename and the chart_type, x_col,
\* y_col, timestamp and version the render used and returned.
C1_ListAfterRender ==
    (prev.op = "render" /\ CtxCall("list")) =>
        /\ last.result.status = "success"
        /\ prev.name \in last.result.chart_artifacts
        /\ prev.info[1] \in Records(last.result.charts_history)
        /\ prev.info[1].filename = prev.name

C1_Witness ==
    /\ prev.op = "render" /\ CtxCall("list")
    /\ prev.name \in last.result.chart_artifacts
    /\ ForeignName \in DOMAIN artifacts
    /\ Len(last.result.charts_history) >= 2

\* C2: deleteChart(f) with a context on the tracked list L returns warning
\* and leaves L in place when no record of L has filename f; otherwise it
\* returns success, the list becomes L without the records whose filename is
\* f, the others in their order, and the removed count is the number removed.
C2_DeleteFilters ==
    CtxCall("delete") =>
        LET L == last.pre_charts
            f == last.name
        IN  IF Tracked(L, f) = {}
            THEN last.result.status = "warning" /\ generated_charts = L
            ELSE /\ last.result.status = "success"
                 /\ generated_charts = SelectSeq(L, LAMBDA r : r.filename # f)
                 /\ last.result.removed = Cardinality(Tracked(L, f))

C2_Witness ==
    /\ CtxCall("delete")
    /\ last.result.status = "success"
    /\ last.result.removed = 2
    /\ Len(generated_charts) >= 1

\* C3: every record of generated_charts has a filename under which the
\* artifact store holds a blob, in every reachable state, also after a render
\* whose artifact put or state write failed.
C3_TrackedHasBlob ==
    \A i \in DOMAIN generated_charts :
        load_artifact(artifacts, generated_charts[i].filename)

C3_Witness ==
    /\ last.op = "render" /\ last.fault = "state_set"
    /\ last.result.status = "error"
    /\ Len(generated_charts) = Len(last.pre_charts) + 1

\* C4: filenames are unique per creation: generated_charts never holds two
\* records with the same filename and no artifact put reuses an earlier key.
C4_UniqueFilenames ==
    /\ \A i, j \in DOMAIN generated_charts :
          i # j => generated_charts[i].filename # generated_charts[j].filename
    /\ \A n \in DOMAIN artifacts : artifacts[n] <= 1

AbsentColumn(c) ==
    /\ c.op = "render" /\ c.params.json /\ c.params.keys = AllKeys
    /\ (c.params.x_col \notin c.params.df \/ c.params.y_col \notin c.params.df)

FirstAbsent(c) ==
    IF c.params.x_col \notin c.params.df THEN c.params.x_col ELSE c.params.y_col

\* C5 as stated: a render whose x_col or y_col is not a column of df returns
\* the MissingColumn error naming the key, stores no blob and appends no record.
C5_MissingColumnKind ==
    AbsentColumn(last) =>
        /\ last.result.status = "error"
        /\ last.result.message = <<"Missing key in JSON data", FirstAbsent(last)>>
        /\ Unchanged

\* C5 amended: such a render returns the generic RenderError result, whose
\* message carries the library's text naming the absent column (x_col when
\* both are absent), stores no blob and appends no record.
C5_AbsentColumnIsRenderError ==
    AbsentColumn(last) =>
        /\ last.result.status = "error"
        /\ last.result.message = <<"Error generating chart", FirstAbsent(last)>>
        /\ Unchanged /\ files = last.pre_files

C5_Witness ==
    /\ AbsentColumn(last) /\ last.ctx
    /\ last.params.x_col \in last.params.df
    /\ last.result.message[2] = ColC
    /\ Len(generated_charts) >= 1

\* C6: the read-modify-write of generated_charts is not atomic.  When two
\* invocations overlap, so that one writes the list between the other's read
\* and the other's write, the first writer's update is lost: its new record
\* is missing from the final list though its render returned success, or the
\* records its delete removed are tracked again.
C6_LostUpdate ==
    \A i \in {1, 2} :
        LET j == Other(i)
        IN  (inv[i].pc = "done" /\ inv[j].pc = "done" /\ inv[j].stale
             /\ inv[j].status = "success") =>
               /\ inv[i].status = "success"
               /\ inv[i].op = "render" =>
                     inv[i].info[1] \notin Records(generated_charts)
               /\ (inv[i].op = "delete"
                   /\ ~(inv[j].op = "delete" /\ inv[j].name = inv[i].name)) =>
                     Tracked(generated_charts, inv[i].name) # {}

C6_Witness ==
    /\ \A i \in {1, 2} :
          inv[i].pc = "done" /\ inv[i].op = "render" /\ inv[i].status = "success"
    /\ inv[2].stale
    /\ inv[1].charts = inv[2].charts
    /\ Len(generated_charts) = Len(inv[1].charts) + 1

\* C7: deleteChart never changes the artifact store: after a successful
\* deleteChart(f), loadChart(f) returns success with chart_info null and
\* listCharts returns f in chart_artifacts.
C7_DeleteKeepsBlob ==
    /\ last.op = "delete" => artifacts = last.pre_artifacts
    /\ (prev.op = "delete" /\ CtxCall("load") /\ last.name = prev.name) =>
          /\ last.result.status = "success"
          /\ last.result.message[2] = prev.name
          /\ last.result.chart_info = <<>>
    /\ (prev.op = "delete" /\ CtxCall("list")) =>
          /\ last.result.status = "success"
          /\ prev.name \in last.result.chart_artifacts

C7_Witness ==
    /\ prev.op = "delete" /\ CtxCall("load") /\ last.name = prev.name
    /\ last.result.status = "success"
    /\ last.result.chart_info = <<>>
    /\ Len(generated_charts) >= 1

ValidParams(c) ==
    /\ c.params.json /\ c.params.keys = AllKeys
    /\ c.params.x_col \in c.params.df /\ c.params.y_col \in c.params.df

\* C8: without a context listCharts, loadChart and deleteChart return the
\* ContextRequired error and leave the store and generated_charts alone;
\* render takes the file path: on valid input and a writable directory it
\* returns success with a filepath, stores no blob and appends no record.
C8_NoContext ==
    /\ (last.op \in {"list", "load", "delete"} /\ ~last.ctx) =>
          /\ last.result.status = "error"
          /\ last.result.message[1] \in
                {"ToolContext required for artifact access",
                 "ToolContext required for state management"}
          /\ last.result.chart_artifacts = {}
          /\ last.result.charts_history = <<>>
          /\ last.result.chart_info = <<>>
          /\ Unchanged
    /\ (last.op = "render" /\ ~last.ctx /\ ValidParams(last)
        /\ last.fault = "none") =>
          /\ last.result.status = "success"
          /\ last.result.filepath # <<>>
          /\ last.result.filepath \in files
          /\ last.result.artifact_name = NoName
          /\ Unchanged

C8_Witness ==
    /\ last.op = "render" /\ ~last.ctx
    /\ last.result.status = "success"
    /\ Len(generated_charts) >= 1
    /\ prev.op = "render"

\* C9: loadChart(f) with a context returns the not-found error exactly when
\* the store holds no blob under f, a tracked record with filename f or not;
\* otherwise it returns success with chart_info the first record of
\* generated_charts whose filename is f, or null when there is none.
C9_LoadChart ==
    CtxCall("load") =>
        LET f == last.name
            L == last.pre_charts
            T == Tracked(L, f)
            first == CHOOSE i \in T : \A k \in T : i <= k
        IN  /\ (last.result.status = "error") <=> (f \notin DOMAIN last.pre_artifacts)
            /\ last.result.status = "error" =>
                  last.result.message = <<"not found in artifacts", f>>
            /\ last.result.status # "error" =>
                  /\ last.result.status = "success"
                  /\ last.result.message[2] = f
                  /\ last.result.chart_info = IF T = {} THEN <<>> ELSE <<L[first]>>
            /\ Unchanged

C9_Witness ==
    /\ CtxCall("load")
    /\ last.result.message[1] = "not found in artifacts"
    /\ Tracked(generated_charts, last.name) # {}

\* C10: every call returns a result whose status is success, error or
\* warning, whatever the input and whichever collaborator fails; warning is
\* returned only by deleteChart of a filename that has no tracked record.
C10_StructuredResult ==
    last.op # "none" =>
        /\ last.result.status \in {"success", "error", "warning"}
        /\ last.result.status = "warning" =>
              last.op = "delete" /\ Tracked(last.pre_charts, last.name) = {}

C10_Witness ==
    /\ last.op = "render" /\ last.fault = "save_artifact"
    /\ ValidParams(last)
    /\ last.result.status = "error"
    /\ last.result.message[1] = "Error generating chart"

====
